---- MODULE Spec2Model ----
(***************************************************************************)
(* Model of src/data/data_preprocess.py: a four statement pandas script    *)
(* that loads the survey CSV, projects it on columns_for_viz, drops the    *)
(* rows with a missing value in the dropna subset and writes the rest as   *)
(* a JSON array of records.                                                *)
(*                                                                         *)
(* A DataFrame is [columns, dtypes, body]: the ordered column labels, the  *)
(* dtype of each column and the rows, each row carrying its index label    *)
(* and its cells.  A cell is NaN (the empty tuple) or <<text>>.            *)
(* A file is [exists, ...]; the JSON document is the sequence of its       *)
(* objects, each object the sequence of its <<key, value>> members.        *)
(***************************************************************************)
EXTENDS Naturals, Sequences, FiniteSets, TLC

VARIABLES pc, inFile, outFile, df, df_clean, error

vars == <<pc, inFile, outFile, df, df_clean, error>>

\* Largest number of data rows of an input file.
MaxRows == 2

Range(s) == {s[i] : i \in 1..Len(s)}

Reverse(s) == [i \in 1..Len(s) |-> s[Len(s) + 1 - i]]

Without(s, c) == LET Keep(x) == x # c IN SelectSeq(s, Keep)

Pos(s, c) == CHOOSE j \in 1..Len(s) : s[j] = c

(***************************************************************************)
(* The literals of the script.                                             *)
(***************************************************************************)
columns_for_viz ==
    <<"Age", "YearsCodePro", "Country", "Currency", "CompTotal",
      "ConvertedCompYearly", "LanguageHaveWorkedWith",
      "NEWCollabToolsHaveWorkedWith", "OpSysProfessional use", "AISelect">>

\* Mutants of the dropna subset: one required column forgotten, AISelect
\* left out, and no subset at all (every column checked).
dropna_subset_without_Country ==
    <<"Age", "YearsCodePro", "Currency", "CompTotal",
      "LanguageHaveWorkedWith", "NEWCollabToolsHaveWorkedWith",
      "OpSysProfessional use", "AISelect">>

dropna_subset_without_AISelect ==
    <<"Age", "YearsCodePro", "Country", "Currency", "CompTotal",
      "LanguageHaveWorkedWith", "NEWCollabToolsHaveWorkedWith",
      "OpSysProfessional use">>

dropna_subset_every_column ==
    <<"Age", "YearsCodePro", "Country", "Currency", "CompTotal",
      "ConvertedCompYearly", "LanguageHaveWorkedWith",
      "NEWCollabToolsHaveWorkedWith", "OpSysProfessional use", "AISelect">>

dropna_subset ==
    <<"Age", "YearsCodePro", "Country", "Currency", "CompTotal",
      "LanguageHaveWorkedWith", "NEWCollabToolsHaveWorkedWith",
      "OpSysProfessional use", "AISelect">>

(***************************************************************************)
(* Files and frames.                                                       *)
(***************************************************************************)
NaN == <<>>

NoFrame == [columns |-> <<>>, dtypes |-> <<>>, body |-> <<>>]

NoInput == [exists |-> FALSE, header |-> <<>>, rows |-> <<>>]

NoOutput == [exists |-> FALSE, records |-> <<>>]

\* What an earlier run of some other version left in ./project-dataset/data.json.
OldRecords == << << <<"Age", <<"string", "stale">> >> >> >>

OldOutput == [exists |-> TRUE, records |-> OldRecords]

(***************************************************************************)
(* pd.read_csv with its defaults: the first line is the header, a field    *)
(* whose text is one of the default NA strings is NaN, a line with fewer   *)
(* fields than the header is padded with NaN, a line with more fields is   *)
(* a ParserError, and a column is numeric when all its present fields are. *)
(***************************************************************************)
STR_NA_VALUES ==
    {"", "#N/A", "#N/A N/A", "#NA", "-1.#IND", "-1.#QNAN", "-NaN", "-nan",
     "1.#IND", "1.#QNAN", "<NA>", "N/A", "NA", "NULL", "NaN", "None", "n/a",
     "nan", "null"}

NumericLiterals == {"1", "5", "90000", "65000"}

FieldAt(line, j) == IF j <= Len(line) THEN line[j] ELSE ""

ParseCell(s) == IF s \in STR_NA_VALUES THEN NaN ELSE <<s>>

TooManyFields(file) ==
    \E i \in 1..Len(file.rows) : Len(file.rows[i]) > Len(file.header)

InferDtype(file, j) ==
    LET fields  == {FieldAt(file.rows[i], j) : i \in 1..Len(file.rows)}
        present == fields \ STR_NA_VALUES
    IN  IF file.rows = <<>> THEN "object"
        ELSE IF present \subseteq NumericLiterals
             THEN IF fields = present THEN "int64" ELSE "float64"
             ELSE "object"

read_csv(file) ==
    [columns |-> file.header,
     dtypes  |-> [c \in Range(file.header) |-> InferDtype(file, Pos(file.header, c))],
     body    |-> [i \in 1..Len(file.rows) |->
                    [label |-> i - 1,
                     cells |-> [c \in Range(file.header) |->
                                  ParseCell(FieldAt(file.rows[i], Pos(file.header, c)))]]]]

(***************************************************************************)
(* df[columns_for_viz]: a KeyError when a label is not a column, else the  *)
(* listed columns in the listed order.                                     *)
(***************************************************************************)
getitem_missing(frame, labels) == Range(labels) \ Range(frame.columns)

\* Mutant: the columns of the frame that are in the list, in the frame's
\* own order (df.loc[:, df.columns.isin(labels)]).
getitem_isin(frame, labels) ==
    LET Listed(c) == c \in Range(labels)
        kept == SelectSeq(frame.columns, Listed)
    IN  [columns |-> kept,
         dtypes  |-> [c \in Range(kept) |-> frame.dtypes[c]],
         body    |-> [i \in 1..Len(frame.body) |->
                        [label |-> frame.body[i].label,
                         cells |-> [c \in Range(kept) |-> frame.body[i].cells[c]]]]]

getitem(frame, labels) ==
    [columns |-> labels,
     dtypes  |-> [c \in Range(labels) |-> frame.dtypes[c]],
     body    |-> [i \in 1..Len(frame.body) |->
                    [label |-> frame.body[i].label,
                     cells |-> [c \in Range(labels) |-> frame.body[i].cells[c]]]]]

(***************************************************************************)
(* df.dropna(subset=...): how='any', so a row goes when any cell of the    *)
(* subset is NaN; the surviving rows keep their index labels and order.    *)
(***************************************************************************)
\* Mutant: how='all', a row goes only when every cell of the subset is NaN.
dropna_how_all(frame, subset) ==
    LET Keep(r) == \E c \in Range(subset) : r.cells[c] # NaN
    IN  [frame EXCEPT !.body = SelectSeq(frame.body, Keep)]

\* Mutant: the survivors sorted on ConvertedCompYearly, NaN last.
dropna_sorted(frame, subset) ==
    LET Keep(r)  == \A c \in Range(subset) : r.cells[c] # NaN
        Has(r)   == r.cells["ConvertedCompYearly"] # NaN
        Lacks(r) == r.cells["ConvertedCompYearly"] = NaN
        kept     == SelectSeq(frame.body, Keep)
    IN  [frame EXCEPT !.body = SelectSeq(kept, Has) \o SelectSeq(kept, Lacks)]

dropna(frame, subset) ==
    LET Keep(r) == \A c \in Range(subset) : r.cells[c] # NaN
    IN  [frame EXCEPT !.body = SelectSeq(frame.body, Keep)]

(***************************************************************************)
(* df_clean.to_json(path, orient='records', indent=2): one object per row, *)
(* one member per column in column order, NaN written as null, a float64   *)
(* column written with its decimal point.  The file is opened with mode    *)
(* "w", so what it held is gone.                                           *)
(***************************************************************************)
FloatRepr(s) ==
    CASE s = "1"     -> "1.0"
      [] s = "5"     -> "5.0"
      [] s = "90000" -> "90000.0"
      [] s = "65000" -> "65000.0"
      [] OTHER       -> s

JsonValue(dtype, cell) ==
    IF cell = NaN THEN <<"null">>
    ELSE IF dtype = "object"  THEN <<"string", cell[1]>>
    ELSE IF dtype = "float64" THEN <<"number", FloatRepr(cell[1])>>
    ELSE <<"number", cell[1]>>

\* Mutant: orient='columns', one member list per column instead of per row.
to_json_columns(frame) ==
    [j \in 1..Len(frame.columns) |->
        [i \in 1..Len(frame.body) |->
            <<frame.columns[j],
              JsonValue(frame.dtypes[frame.columns[j]],
                        frame.body[i].cells[frame.columns[j]])>>]]

to_json(frame) ==
    [i \in 1..Len(frame.body) |->
        [j \in 1..Len(frame.columns) |->
            <<frame.columns[j],
              JsonValue(frame.dtypes[frame.columns[j]],
                        frame.body[i].cells[frame.columns[j]])>>]]

\* Mutant: the file opened with mode "a".
open_append(old, records) == [exists |-> TRUE, records |-> old.records \o records]

open_w(old, records) == [exists |-> TRUE, records |-> records]

(***************************************************************************)
(* The input files the model runs on.  The header is the survey's header   *)
(* cut down to the selected columns and one other column, in two orders,   *)
(* or with one selected column absent.  A data row holds the scenario's    *)
(* values, with NA text or nothing in some fields, or it is one field      *)
(* short or one field long.  The first data row is never long: read_csv    *)
(* would take its first field for an index column, which the survey file   *)
(* does not have.                                                          *)
(***************************************************************************)
SampleValue(c) ==
    CASE c = "Age"                          -> "25-34"
      [] c = "YearsCodePro"                 -> "5"
      [] c = "Country"                      -> "USA"
      [] c = "Currency"                     -> "USD"
      [] c = "CompTotal"                    -> "90000"
      [] c = "ConvertedCompYearly"          -> "65000"
      [] c = "LanguageHaveWorkedWith"       -> "Python"
      [] c = "NEWCollabToolsHaveWorkedWith" -> "VS Code"
      [] c = "OpSysProfessional use"        -> "Windows"
      [] c = "AISelect"                     -> "Yes"
      [] OTHER                              -> "1"

HeaderSurvey == <<"ResponseId">> \o columns_for_viz

HeaderShuffled == Reverse(columns_for_viz) \o <<"ResponseId">>

AbsentColumns == {"Country", "ConvertedCompYearly"}

Headers ==
    {HeaderSurvey, HeaderShuffled} \cup {Without(HeaderSurvey, c) : c \in AbsentColumns}

Markers == {"", "NA"}

MkRow(header, missing, marker) ==
    [j \in 1..Len(header) |->
        IF header[j] \in missing THEN marker ELSE SampleValue(header[j])]

FullRow(header) == MkRow(header, {}, "NA")

ShortRow(header) == SubSeq(FullRow(header), 1, Len(header) - 1)

LongRow(header) == Append(FullRow(header), "extra")

RowKinds(header) ==
    {FullRow(header), ShortRow(header), LongRow(header),
     MkRow(header, {"ConvertedCompYearly", "AISelect"}, "NA")}
    \cup {MkRow(header, {c}, m) : c \in Range(columns_for_viz) \cap Range(header),
                                  m \in Markers}

FirstRowFits(header, t) == Len(t) > 0 => Len(t[1]) <= Len(header)

IsInputFile(file) ==
    \/ file = NoInput
    \/ \E h \in Headers : \E n \in 0..MaxRows : \E t \in [1..n -> RowKinds(h)] :
          /\ FirstRowFits(h, t)
          /\ file = [exists |-> TRUE, header |-> h, rows |-> t]

(***************************************************************************)
(* The run.  pc names the statement to execute next; an exception no       *)
(* statement catches ends the run.                                         *)
(***************************************************************************)
\* Mutant: the exception is caught and the statement tried again.
RaiseAndRetry(e) == pc' = pc /\ error' = e

Raise(e) == pc' = "failed" /\ error' = e

Init ==
    /\ pc = "Loader"
    /\ IsInputFile(inFile)
    /\ outFile \in {NoOutput, OldOutput}
    /\ df = NoFrame
    /\ df_clean = NoFrame
    /\ error = "none"

\* df = pd.read_csv(".../survey_results_public.csv")
Loader ==
    /\ pc = "Loader"
    /\ \/ /\ ~inFile.exists
          /\ Raise("FileNotFoundError")
          /\ UNCHANGED df
       \/ /\ inFile.exists
          /\ TooManyFields(inFile)
          /\ Raise("ParserError")
          /\ UNCHANGED df
       \/ /\ inFile.exists
          /\ ~TooManyFields(inFile)
          /\ df' = read_csv(inFile)
          /\ pc' = "Projector"
          /\ UNCHANGED error
    /\ UNCHANGED <<inFile, outFile, df_clean>>

\* Mutant: df.reindex(columns=columns_for_viz), which raises nothing and gives
\* an absent column as a float64 column of NaN.
Projector_reindex ==
    /\ pc = "Projector"
    /\ df' = [columns |-> columns_for_viz,
              dtypes  |-> [c \in Range(columns_for_viz) |->
                             IF c \in Range(df.columns) THEN df.dtypes[c] ELSE "float64"],
              body    |-> [i \in 1..Len(df.body) |->
                             [label |-> df.body[i].label,
                              cells |-> [c \in Range(columns_for_viz) |->
                                           IF c \in Range(df.columns)
                                           THEN df.body[i].cells[c] ELSE NaN]]]]
    /\ pc' = "Filter"
    /\ UNCHANGED <<inFile, outFile, df_clean, error>>

\* df = df[columns_for_viz]
Projector ==
    /\ pc = "Projector"
    /\ \/ /\ getitem_missing(df, columns_for_viz) # {}
          /\ Raise("KeyError")
          /\ UNCHANGED df
       \/ /\ getitem_missing(df, columns_for_viz) = {}
          /\ df' = getitem(df, columns_for_viz)
          /\ pc' = "Filter"
          /\ UNCHANGED error
    /\ UNCHANGED <<inFile, outFile, df_clean>>

\* df_clean = df.dropna(subset=[...])
Filter ==
    /\ pc = "Filter"
    /\ \/ /\ getitem_missing(df, dropna_subset) # {}
          /\ Raise("KeyError")
          /\ UNCHANGED df_clean
       \/ /\ getitem_missing(df, dropna_subset) = {}
          /\ df_clean' = dropna(df, dropna_subset)
          /\ pc' = "Serializer"
          /\ UNCHANGED error
    /\ UNCHANGED <<inFile, outFile, df>>

\* df_clean.to_json('./project-dataset/data.json', orient='records', indent=2)
\* The directory ./project-dataset may be missing or read-only: open() fails.
Serializer ==
    /\ pc = "Serializer"
    /\ \/ /\ Raise("OSError")
          /\ UNCHANGED outFile
       \/ /\ outFile' = open_w(outFile, to_json(df_clean))
          /\ pc' = "done"
          /\ UNCHANGED error
    /\ UNCHANGED <<inFile, df, df_clean>>

Next == Loader \/ Projector \/ Filter \/ Serializer

Spec == Init /\ [][Next]_vars

\* The interpreter executes the next statement as long as there is one.
FairSpec == Spec /\ WF_vars(Next)

(***************************************************************************)
(* Vocabulary of the properties: the input file as written, the output     *)
(* file as written, and the index labels that tie a surviving row to the   *)
(* input line it came from.                                                *)
(***************************************************************************)
Required8 ==
    {"Age", "YearsCodePro", "Country", "Currency", "CompTotal",
     "LanguageHaveWorkedWith", "NEWCollabToolsHaveWorkedWith",
     "OpSysProfessional use"}

Exempt2 == {"ConvertedCompYearly", "AISelect"}

Checked9 == Required8 \cup {"AISelect"}

Selected10 ==
    <<"Age", "YearsCodePro", "Country", "Currency", "CompTotal",
      "ConvertedCompYearly", "LanguageHaveWorkedWith",
      "NEWCollabToolsHaveWorkedWith", "OpSysProfessional use", "AISelect">>

JsonNull == <<"null">>

Written == pc = "done"

Records == outFile.records

InputRows == 1..Len(inFile.rows)

\* Row i of the input has no value in column c: the field is not there,
\* is empty, or is the survey's NA.
InputNull(i, c) ==
    LET j == Pos(inFile.header, c)
    IN  \/ j > Len(inFile.rows[i])
        \/ inFile.rows[i][j] \in {"", "NA"}

InputText(i, c) == inFile.rows[i][Pos(inFile.header, c)]

Survives(i) == \E k \in 1..Len(df_clean.body) : df_clean.body[k].label = i - 1

HasKey(rec, key) == \E j \in 1..Len(rec) : rec[j][1] = key

ValueOf(rec, key) == rec[CHOOSE j \in 1..Len(rec) : rec[j][1] = key][2]

RecordOf(i) ==
    Records[CHOOSE k \in 1..Len(df_clean.body) : df_clean.body[k].label = i - 1]

Satisfying(checked) == {i \in InputRows : \A c \in checked : ~InputNull(i, c)}

\* json.load of the output file: a list of dicts.
ParseJson(doc) ==
    [k \in 1..Len(doc) |->
        [key \in {doc[k][j][1] : j \in 1..Len(doc[k])} |-> ValueOf(doc[k], key)]]

\* C1: every written record has a present, non-null, non-empty value in each
\* of the 8 required columns, and an input row with a missing or empty
\* value in a required column is not among the written records.
C1Theorem ==
    Written =>
        /\ Len(Records) = Len(df_clean.body)
        /\ \A k \in 1..Len(Records) : \A c \in Required8 :
              /\ HasKey(Records[k], c)
              /\ ValueOf(Records[k], c) \notin {JsonNull, <<"string", "">>}
        /\ \A i \in InputRows :
              (\E c \in Required8 : InputNull(i, c)) => ~Survives(i)

C1Witness ==
    /\ Written
    /\ Len(Records) > 0
    /\ \E i \in InputRows : InputNull(i, "Country") /\ ~Survives(i)

C5Theorem ==
    Written =>
        /\ Len(Records) = Len(df_clean.body)
        /\ \A k \in 1..Len(Records) : df_clean.body[k].label + 1 \in InputRows
        /\ \A k1, k2 \in 1..Len(Records) :
              k1 < k2 => df_clean.body[k1].label < df_clean.body[k2].label
        /\ \A k \in 1..Len(Records) : \A c \in Range(Selected10) :
              LET i == df_clean.body[k].label + 1
                  v == ValueOf(Records[k], c)
              IN  IF InputNull(i, c) THEN v = JsonNull
                  ELSE v \in {<<"string", InputText(i, c)>>,
                              <<"number", InputText(i, c)>>,
                              <<"number", FloatRepr(InputText(i, c))>>}

C5Witness ==
    /\ Written
    /\ Len(Records) >= 2
    /\ Records[1] # Records[2]

\* C6: every written record has exactly the 10 keys of the selection set,
\* in that order, whatever else the input header holds and in whatever
\* order; a key whose value is null is there all the same.
C6Theorem ==
    Written =>
        \A k \in 1..Len(Records) :
            [j \in 1..Len(Records[k]) |-> Records[k][j][1]] = Selected10

C6Witness ==
    /\ Written
    /\ inFile.header = HeaderShuffled
    /\ \E k \in 1..Len(Records) : ValueOf(Records[k], "ConvertedCompYearly") = JsonNull

StageAfter(stage) ==
    CASE stage = "Loader"     -> "Projector"
      [] stage = "Projector"  -> "Filter"
      [] stage = "Filter"     -> "Serializer"
      [] stage = "Serializer" -> "done"
      [] OTHER                -> "none"

Terminated == pc \in {"done", "failed"}

\* C7: a step of the run takes one stage to the next one or to the failure
\* of the run, never back and never again, nothing runs once the Serializer
\* has completed or a stage has failed, and every run gets there.
C7Theorem == [][pc' \in {StageAfter(pc), "failed"} /\ ~Terminated]_vars /\ <>Terminated

C7Witness == pc = "done" /\ error = "none" /\ outFile.exists

\* C8: a failure ends the run where it happens, and with a selected column
\* absent from the header the run never gets past the Projector, which
\* fails with a KeyError: the Filter and the Serializer do not run.
C8Theorem ==
    /\ error # "none" <=> pc = "failed"
    /\ pc = "failed" => ~ENABLED Next
    /\ (pc = "failed" /\ error \in {"FileNotFoundError", "ParserError"}) =>
          df = NoFrame /\ df_clean = NoFrame
    /\ (pc = "failed" /\ error = "KeyError") =>
          df.columns = inFile.header /\ df_clean = NoFrame
    /\ (inFile.exists /\ ~(Range(Selected10) \subseteq Range(inFile.header))) =>
          /\ pc \in {"Loader", "Projector", "failed"}
          /\ df_clean = NoFrame
          /\ pc = "failed" => error \in {"ParserError", "KeyError"}

C8Witness ==
    /\ pc = "failed"
    /\ error = "KeyError"
    /\ "Country" \notin Range(inFile.header)

\* C9: the Filter checks AISelect too: an input row without AISelect is not
\* written, and in a written record no selected column but
\* ConvertedCompYearly is null.
C9Theorem ==
    Written =>
        /\ \A i \in InputRows : InputNull(i, "AISelect") => ~Survives(i)
        /\ \A k \in 1..Len(Records) :
              \A c \in Range(Selected10) \ {"ConvertedCompYearly"} :
                  ValueOf(Records[k], c) # JsonNull

C9Witness ==
    /\ Written
    /\ \E i \in InputRows :
          /\ InputNull(i, "AISelect")
          /\ \A c \in Range(Selected10) \ {"AISelect"} : ~InputNull(i, c)
    /\ \E k \in 1..Len(Records) : ValueOf(Records[k], "ConvertedCompYearly") = JsonNull

\* C10: only the Serializer touches the output file: a step of the Loader,
\* the Projector or the Filter, failing or not, leaves it as it was, and
\* the step that completes the run leaves in it one record of 10 members
\* for each surviving row of this run and nothing of what it held.
C10Theorem ==
    [][/\ pc # "Serializer" => outFile' = outFile
       /\ pc' = "done" =>
             /\ outFile'.exists
             /\ Len(outFile'.records) = Len(df_clean.body)
             /\ \A k \in 1..Len(outFile'.records) :
                   [j \in 1..Len(outFile'.records[k]) |-> outFile'.records[k][j][1]]
                       = Selected10]_vars

C10Witness ==
    /\ pc = "failed"
    /\ error \in {"FileNotFoundError", "KeyError"}
    /\ outFile = OldOutput

====
